---------------------------- MODULE Spec2Model ----------------------------
(***************************************************************************)
(* Conway's Game of Life on a bounded grid (crate game_of_life, lib.rs).   *)
(*                                                                         *)
(* A Grid is a width, a height and a HashMap from (x, y) to Cell; a Cell   *)
(* is a record of its own coordinates and its liveness.  The HashMap is    *)
(* modelled as a TLA+ function whose domain is the set of keys; Option<T>  *)
(* as a sequence of length 0 (None) or 1 (Some).  The order in which       *)
(* HashMap::iter visits the entries is not specified by the map: every     *)
(* order of the keys can occur, and Grid::next_state is followed over all  *)
(* of them.                                                                *)
(***************************************************************************)
EXTENDS Integers, Sequences, FiniteSets

VARIABLES pc, width, height, cells, gen, op, failure, ret, run

vars == <<pc, width, height, cells, gen, op, failure, ret, run>>

(***************************************************************************)
(* Bounds of the model.                                                    *)
(***************************************************************************)
\* constructors are called with every width and height in -1..MaxCells whose
\* rectangle has at most MaxCells cells
MaxCells == 6
\* number of Grid::next_state calls explored after construction
MaxGen == 2
\* longest seed list handed to from_seed by the general specification
MaxSeedLen == 2
\* number of Grid::next_state calls explored on the 5 x 5 blinker
MaxGenBlinker == 1
\* Game::run is entered with max_generations in 0..MaxGenerations
MaxGenerations == 2

Dims ==
    { d \in (-1 .. MaxCells) \X (-1 .. MaxCells) : d[1] <= 0 \/ d[2] <= 0 \/ d[1] * d[2] <= MaxCells }

Rect(w, h) == { <<x, y>> : x \in 0 .. (w - 1), y \in 0 .. (h - 1) }

\* the coordinates callers pass for a w x h grid: every in-bounds one, and
\* out-of-range ones on each side of the rectangle
Around(w, h) == Rect(w, h) \cup { <<-1, 0>>, <<0, -1>>, <<w, 0>>, <<0, h>>, <<w, h>> }

(***************************************************************************)
(* Option and HashMap                                                      *)
(***************************************************************************)
None == << >>
Some(v) == << v >>

EmptyMap == << >>

\* HashMap::insert: adds the key or replaces the value stored under it
Insert(m, k, v) == [ kk \in (DOMAIN m) \cup {k} |-> IF kk = k THEN v ELSE m[kk] ]

\* HashMap::get
Get(m, k) == IF k \in DOMAIN m THEN Some(m[k]) ELSE None

(***************************************************************************)
(* Cell                                                                    *)
(***************************************************************************)
CellNew(x, y, is_alive) == [ x |-> x, y |-> y, is_alive |-> is_alive ]

\* mutant: toggle sets the cell alive instead of negating it
CellToggleSetsAlive(cell) == [ cell EXCEPT !.is_alive = TRUE ]

\* mutant: toggle always leaves the cell dead
CellToggleKills(cell) == [ cell EXCEPT !.is_alive = FALSE ]

CellToggle(cell) == [ cell EXCEPT !.is_alive = ~ cell.is_alive ]

\* mutant: a live cell survives on two neighbours only
CellNextStateSurviveOnTwoOnly(cell, live_neighbour_count) ==
    CASE cell.is_alive /\ live_neighbour_count = 2 -> [ cell EXCEPT !.is_alive = TRUE ]
      [] cell.is_alive -> [ cell EXCEPT !.is_alive = FALSE ]
      [] (~ cell.is_alive) /\ live_neighbour_count = 3 -> [ cell EXCEPT !.is_alive = TRUE ]
      [] OTHER -> [ cell EXCEPT !.is_alive = FALSE ]

\* mutant: a dead cell is also born on two neighbours
CellNextStateBirthOnTwo(cell, live_neighbour_count) ==
    CASE cell.is_alive /\ live_neighbour_count \in {0, 1} -> [ cell EXCEPT !.is_alive = FALSE ]
      [] cell.is_alive /\ live_neighbour_count \in {2, 3} -> [ cell EXCEPT !.is_alive = TRUE ]
      [] cell.is_alive -> [ cell EXCEPT !.is_alive = FALSE ]
      [] (~ cell.is_alive) /\ live_neighbour_count \in {2, 3} -> [ cell EXCEPT !.is_alive = TRUE ]
      [] OTHER -> [ cell EXCEPT !.is_alive = FALSE ]

\* mutant: the next cell is built afresh at the origin instead of cloned
CellNextStateAtOrigin(cell, live_neighbour_count) ==
    [ x |-> 0, y |-> 0,
      is_alive |-> IF cell.is_alive THEN live_neighbour_count \in {2, 3}
                   ELSE live_neighbour_count = 3 ]

CellNextState(cell, live_neighbour_count) ==
    CASE cell.is_alive /\ live_neighbour_count \in {0, 1} -> [ cell EXCEPT !.is_alive = FALSE ]
      [] cell.is_alive /\ live_neighbour_count \in {2, 3} -> [ cell EXCEPT !.is_alive = TRUE ]
      [] cell.is_alive -> [ cell EXCEPT !.is_alive = FALSE ]
      [] (~ cell.is_alive) /\ live_neighbour_count = 3 -> [ cell EXCEPT !.is_alive = TRUE ]
      [] OTHER -> [ cell EXCEPT !.is_alive = FALSE ]

\* Grid::cell
GridCell(m, x, y) == Get(m, <<x, y>>)

\* mutant: the cell's own coordinate is among the offsets
NeighbourCoordinatesWithSelf(cell) ==
    << <<cell.x - 1, cell.y - 1>>, <<cell.x, cell.y - 1>>, <<cell.x + 1, cell.y - 1>>,
       <<cell.x - 1, cell.y>>, <<cell.x, cell.y>>, <<cell.x + 1, cell.y>>,
       <<cell.x - 1, cell.y + 1>>, <<cell.x, cell.y + 1>>, <<cell.x + 1, cell.y + 1>> >>

NeighbourCoordinates(cell) ==
    << <<cell.x - 1, cell.y - 1>>, <<cell.x, cell.y - 1>>, <<cell.x + 1, cell.y - 1>>,
       <<cell.x - 1, cell.y>>, <<cell.x + 1, cell.y>>,
       <<cell.x - 1, cell.y + 1>>, <<cell.x, cell.y + 1>>, <<cell.x + 1, cell.y + 1>> >>

RECURSIVE FilterMapCells(_, _, _)
\* coordinates.iter().filter_map(|(x, y)| grid.cell(*x, *y)).map(|cell| *cell).collect()
FilterMapCells(coordinates, i, m) ==
    IF i > Len(coordinates) THEN << >>
    ELSE GridCell(m, coordinates[i][1], coordinates[i][2]) \o FilterMapCells(coordinates, i + 1, m)

CellNeighbours(cell, m) == FilterMapCells(NeighbourCoordinates(cell), 1, m)

IsAlive(cell) == cell.is_alive

\* mutant: every neighbour is counted, alive or not
CellLiveNeighboursCountAll(cell, m) == Len(CellNeighbours(cell, m))

CellLiveNeighboursCount(cell, m) == Len(SelectSeq(CellNeighbours(cell, m), IsAlive))

\* mutant: an absent cell has an empty neighbour list instead of None
GridCellNeighborsEmptyWhenAbsent(m, x, y) ==
    LET opt_cell == GridCell(m, x, y)
    IN  IF opt_cell = None THEN Some(<< >>) ELSE Some(CellNeighbours(opt_cell[1], m))

\* Grid::cell_neighbors
GridCellNeighbors(m, x, y) ==
    LET opt_cell == GridCell(m, x, y)
    IN  IF opt_cell = None THEN None ELSE Some(CellNeighbours(opt_cell[1], m))

(***************************************************************************)
(* Grid construction                                                       *)
(***************************************************************************)
RECURSIVE InsertRowInclusive(_, _, _, _, _)
\* mutant: the column loop runs over 0..=width
InsertRowInclusive(m, x, y, w, live) ==
    IF x > w THEN m
    ELSE InsertRowInclusive(Insert(m, <<x, y>>, CellNew(x, y, <<x, y>> \in live)), x + 1, y, w, live)

RECURSIVE InsertRow(_, _, _, _, _)
\* for x in 0..width { cells.insert((x, y), Cell::new(x, y, <draw>)) }
InsertRow(m, x, y, w, live) ==
    IF x >= w THEN m
    ELSE InsertRow(Insert(m, <<x, y>>, CellNew(x, y, <<x, y>> \in live)), x + 1, y, w, live)

RECURSIVE InsertRows(_, _, _, _, _)
\* for y in 0..height { ... }
InsertRows(m, y, w, h, live) ==
    IF y >= h THEN m
    ELSE InsertRows(InsertRow(m, 0, y, w, live), y + 1, w, h, live)

\* Grid::new: every cell dead
GridNew(w, h) == InsertRows(EmptyMap, 0, w, h, {})

\* Grid::random: live is the set of coordinates where rand::random() drew true
GridRandom(w, h, live) == InsertRows(EmptyMap, 0, w, h, live)

RECURSIVE ToggleSeedsSkipAbsent(_, _, _)
\* mutant: a seed coordinate with no entry is skipped instead of unwrapped
ToggleSeedsSkipAbsent(m, live_cells, i) ==
    IF i > Len(live_cells) THEN [ ok |-> TRUE, cells |-> m ]
    ELSE IF Get(m, live_cells[i]) = None THEN ToggleSeedsSkipAbsent(m, live_cells, i + 1)
    ELSE ToggleSeedsSkipAbsent([ m EXCEPT ![live_cells[i]] = CellToggle(@) ], live_cells, i + 1)

RECURSIVE ToggleSeeds(_, _, _)
\* for (x, y) in live_cells { grid.cells.get_mut(&(*x, *y)).unwrap().toggle(); }
\* unwrap on None panics: ok = FALSE and the loop is abandoned there
ToggleSeeds(m, live_cells, i) ==
    IF i > Len(live_cells) THEN [ ok |-> TRUE, cells |-> m ]
    ELSE IF Get(m, live_cells[i]) = None THEN [ ok |-> FALSE, cells |-> m ]
    ELSE ToggleSeeds([ m EXCEPT ![live_cells[i]] = CellToggle(@) ], live_cells, i + 1)

\* Grid::from_seed
GridFromSeed(w, h, live_cells) == ToggleSeeds(GridNew(w, h), live_cells, 1)

(***************************************************************************)
(* Grid::toggle_cell and Grid::next_state                                  *)
(***************************************************************************)
\* mutant: toggling a coordinate with no entry returns the grid untouched
GridToggleCellIgnoresAbsent(m, x, y) ==
    LET opt_cell == GridCell(m, x, y)
    IN  IF opt_cell = None THEN [ ok |-> TRUE, cells |-> m ]
        ELSE [ ok |-> TRUE, cells |-> Insert(m, <<x, y>>, CellToggle(opt_cell[1])) ]

\* ok = FALSE: panic!("Error: {:?}", GridError::CellOutOfBoundsError)
GridToggleCell(m, x, y) ==
    LET opt_cell == GridCell(m, x, y)
    IN  IF opt_cell = None THEN [ ok |-> FALSE, cells |-> m ]
        ELSE [ ok |-> TRUE, cells |-> Insert(m, <<x, y>>, CellToggle(opt_cell[1])) ]

\* the closure of for_each called on one entry of self.cells: cell is read
\* from self.cells, the neighbours are counted in `this`, and the result is
\* inserted into `this`
Visit(self_cells, this, key) ==
    Insert(this, key,
           CellNextState(self_cells[key], CellLiveNeighboursCount(self_cells[key], this)))

RECURSIVE ForEachCell(_, _, _, _)
\* self.cells.iter().for_each(|(key, cell)| { ... }), the entries taken in `order`;
\* each call of the closure yields one map, and the rest of the iteration goes
\* on from that map
ForEachCell(self_cells, this, order, i) ==
    IF i > Len(order) THEN this
    ELSE CHOOSE r \in { ForEachCell(self_cells, t, order, i + 1) :
                        t \in { Visit(self_cells, this, order[i]) } } : TRUE

\* Grid::next_state, the entries of self.cells visited in `order`:
\* this = self.clone(); for_each; self.cells = this.cells
GridNextState(m, order) == ForEachCell(m, m, order, 1)

\* the sequences that hold every element of S once
Permutations(S) ==
    { f \in [ 1 .. Cardinality(S) -> S ] : \A i, j \in 1 .. Cardinality(S) : f[i] = f[j] => i = j }

\* The orders in which HashMap::iter may visit the entries of a map: std's
\* HashMap is seeded per map, and every order of the keys occurs.
IterOrders(m) == Permutations(DOMAIN m)

(***************************************************************************)
(* The grids next_state can return, over all the orders of IterOrders.     *)
(* A call of the closure that writes back the value the entry already has  *)
(* leaves `this` as it is, so an order matters only through the sequence   *)
(* of calls that change an entry.  The iteration is followed as that       *)
(* sequence.  `waiting` holds the keys whose entry has its pre-call value  *)
(* and for which, in every value `this` has had so far, the closure would  *)
(* have changed the entry.  A key that is not waiting and never changes    *)
(* was visited at a moment at which its call changed nothing; a key that   *)
(* changes was not visited before.  The iteration can therefore end in     *)
(* `this` exactly when no key is waiting.                                  *)
(***************************************************************************)
\* the closure called on key now would write back the value the entry has
Keeps(self_cells, this, key) == Visit(self_cells, this, key)[key] = this[key]

Moment(self_cells, this, waiting) ==
    [ this |-> this, waiting |-> { k \in waiting : ~Keeps(self_cells, this, k) } ]

\* the moments one changing call after moment s: the entry of an unvisited
\* key (it still has its pre-call value) is changed by the closure
ChangingVisits(self_cells, s) ==
    UNION { { Moment(self_cells, this, s.waiting \ {k}) :
                this \in { Visit(self_cells, s.this, k) } \ { s.this } } :
              k \in { j \in DOMAIN self_cells : s.this[j] = self_cells[j] } }

RECURSIVE Iteration(_, _)
\* element i: the moments after i - 1 changing calls
Iteration(self_cells, moments) ==
    IF moments = {} THEN << >>
    ELSE << moments >>
         \o CHOOSE r \in { Iteration(self_cells, next) :
                           next \in { UNION { ChangingVisits(self_cells, s) : s \in moments } } } : TRUE

\* Grid::next_state over every order: element i is the set of maps the call
\* can leave in self.cells after i - 1 changing calls of the closure
GridNextStates(m) ==
    LET ends(moments) == { s.this : s \in { e \in moments : e.waiting = {} } }
    IN  CHOOSE r \in { [ i \in DOMAIN iteration |-> ends(iteration[i]) ] :
                       iteration \in { Iteration(m, { start }) :
                                         start \in { Moment(m, m, DOMAIN m) } } } : TRUE

(***************************************************************************)
(* State machine.  pc = "start": no grid has been constructed; "ready": a  *)
(* grid exists; "panicked": the last call panicked and the process ended.  *)
(* op records the last call and its arguments, gen counts the next_state   *)
(* calls made on the grid, ret is the value the last lookup returned, and  *)
(* run is the state of Game::run (its loop variables and what it printed). *)
(***************************************************************************)
\* no lookup has returned since the last constructor, toggle_cell or next_state
NoReturn == << >>

\* Game::run has not been entered
NoRun == [ pc |-> "idle", max_generations |-> 0, current_generation |-> 0,
           advances |-> 0, renders |-> 0, screen |-> << >>, labels |-> << >> ]

Call(name, w, h, x, y, live_cells) ==
    [ name |-> name, w |-> w, h |-> h, x |-> x, y |-> y, live_cells |-> live_cells ]

Init ==
    /\ pc = "start"
    /\ width = 0
    /\ height = 0
    /\ cells = EmptyMap
    /\ gen = 0
    /\ op = Call("none", 0, 0, 0, 0, << >>)
    /\ failure = "none"
    /\ ret = NoReturn
    /\ run = NoRun

NewCall(w, h) ==
    /\ pc = "start"
    /\ pc' = "ready"
    /\ width' = w
    /\ height' = h
    /\ cells' = GridNew(w, h)
    /\ op' = Call("new", w, h, 0, 0, << >>)
    /\ ret' = NoReturn
    /\ UNCHANGED <<gen, failure, run>>

RandomCall(w, h, live) ==
    /\ pc = "start"
    /\ pc' = "ready"
    /\ width' = w
    /\ height' = h
    /\ cells' = GridRandom(w, h, live)
    /\ op' = Call("random", w, h, 0, 0, << >>)
    /\ ret' = NoReturn
    /\ UNCHANGED <<gen, failure, run>>

FromSeedCall(w, h, live_cells) ==
    /\ pc = "start"
    /\ LET r == GridFromSeed(w, h, live_cells)
       IN  IF r.ok
           THEN /\ pc' = "ready"
                /\ width' = w
                /\ height' = h
                /\ cells' = r.cells
                /\ failure' = failure
           ELSE /\ pc' = "panicked"
                /\ failure' = "UnwrapNone"
                /\ UNCHANGED <<width, height, cells>>
    /\ op' = Call("from_seed", w, h, 0, 0, live_cells)
    /\ ret' = NoReturn
    /\ UNCHANGED <<gen, run>>

ToggleCellCall(x, y) ==
    /\ pc = "ready"
    /\ LET r == GridToggleCell(cells, x, y)
       IN  IF r.ok
           THEN /\ pc' = "ready"
                /\ cells' = r.cells
                /\ failure' = failure
           ELSE /\ pc' = "panicked"
                /\ cells' = r.cells
                /\ failure' = "CellOutOfBoundsError"
    /\ op' = Call("toggle_cell", 0, 0, x, y, << >>)
    /\ ret' = NoReturn
    /\ UNCHANGED <<width, height, gen, run>>

\* mutant: the call swaps the width and the height of the grid
NextStateCallTransposes(next) ==
    /\ pc = "ready"
    /\ cells' = next
    /\ gen' = gen + 1
    /\ width' = height
    /\ height' = width
    /\ op' = Call("next_state", 0, 0, 0, 0, << >>)
    /\ ret' = NoReturn
    /\ UNCHANGED <<pc, failure, run>>

\* next_state returns with `next` in self.cells
NextStateCall(next) ==
    /\ pc = "ready"
    /\ cells' = next
    /\ gen' = gen + 1
    /\ op' = Call("next_state", 0, 0, 0, 0, << >>)
    /\ ret' = NoReturn
    /\ UNCHANGED <<pc, width, height, failure, run>>

\* next_state called on the grid, its map iterated in any order
Advance ==
    \E results \in { GridNextStates(cells) } :
        \E i \in DOMAIN results : \E next \in results[i] : NextStateCall(next)

SeedLists(w, h) == UNION { [ 1 .. n -> Around(w, h) ] : n \in 0 .. MaxSeedLen }

New == \E d \in Dims : NewCall(d[1], d[2])

Random == \E d \in Dims : \E live \in SUBSET Rect(d[1], d[2]) : RandomCall(d[1], d[2], live)

FromSeed == \E d \in Dims : \E live_cells \in SeedLists(d[1], d[2]) : FromSeedCall(d[1], d[2], live_cells)

ToggleCell == \E c \in Around(width, height) : ToggleCellCall(c[1], c[2])

NextState == gen < MaxGen /\ Advance

Next == New \/ Random \/ FromSeed \/ ToggleCell \/ NextState

Spec == Init /\ [][Next]_vars

(***************************************************************************)
(* Two seeded runs: the blinker on a 5 x 5 grid and the block on a 4 x 4   *)
(* grid, each constructed by from_seed and then advanced by next_state.    *)
(***************************************************************************)
BlinkerSeed == << <<1, 2>>, <<2, 2>>, <<3, 2>> >>
BlinkerRow == { <<1, 2>>, <<2, 2>>, <<3, 2>> }
BlinkerColumn == { <<2, 1>>, <<2, 2>>, <<2, 3>> }

BlockSeed == << <<1, 1>>, <<2, 1>>, <<1, 2>>, <<2, 2>> >>
BlockCells == { <<1, 1>>, <<2, 1>>, <<1, 2>>, <<2, 2>> }

FromSeedBlinker == FromSeedCall(5, 5, BlinkerSeed)

FromSeedBlock == FromSeedCall(4, 4, BlockSeed)

NextStateBlinker == gen < MaxGenBlinker /\ Advance

NextBlinker == FromSeedBlinker \/ NextStateBlinker

SpecBlinker == Init /\ [][NextBlinker]_vars


(***************************************************************************)
(* Lookups: Grid::cell, Grid::cell_neighbors and                           *)
(* Cell::live_neighbours_count, called on a grid built by new or random    *)
(* (the general sizes, a 3 x 3 grid, whose centre has all eight            *)
(* neighbours, and the all-dead 5 x 5 grid), possibly after one cell of    *)
(* an all-dead grid was toggled.                                           *)
(***************************************************************************)
\* mutant: the lookup takes the entry out of the map (HashMap::remove for get)
CellCallRemoves(x, y) ==
    /\ pc = "ready"
    /\ ret' = GridCell(cells, x, y)
    /\ cells' = [ k \in (DOMAIN cells) \ { <<x, y>> } |-> cells[k] ]
    /\ op' = Call("cell", 0, 0, x, y, << >>)
    /\ UNCHANGED <<pc, width, height, gen, failure, run>>

CellCall(x, y) ==
    /\ pc = "ready"
    /\ ret' = GridCell(cells, x, y)
    /\ op' = Call("cell", 0, 0, x, y, << >>)
    /\ UNCHANGED <<pc, width, height, cells, gen, failure, run>>

CellNeighborsCall(x, y) ==
    /\ pc = "ready"
    /\ ret' = GridCellNeighbors(cells, x, y)
    /\ op' = Call("cell_neighbors", 0, 0, x, y, << >>)
    /\ UNCHANGED <<pc, width, height, cells, gen, failure, run>>

\* grid.cell(x, y).unwrap().live_neighbours_count(&grid): the receiver is a
\* cell of the grid, so (x, y) has an entry
LiveNeighboursCountCall(x, y) ==
    /\ pc = "ready"
    /\ <<x, y>> \in DOMAIN cells
    /\ ret' = CellLiveNeighboursCount(cells[<<x, y>>], cells)
    /\ op' = Call("live_neighbours_count", 0, 0, x, y, << >>)
    /\ UNCHANGED <<pc, width, height, cells, gen, failure, run>>

CellLookup == \E c \in Around(width, height) : CellCall(c[1], c[2])

CellNeighborsLookup == \E c \in Around(width, height) : CellNeighborsCall(c[1], c[2])

LiveNeighboursCountLookup == \E c \in Around(width, height) : LiveNeighboursCountCall(c[1], c[2])

RandomSquare == \E live \in SUBSET Rect(3, 3) : RandomCall(3, 3, live)

NewFive == NewCall(5, 5)

ToggleOnDead ==
    /\ \A k \in DOMAIN cells : ~ cells[k].is_alive
    /\ \E c \in Around(width, height) : ToggleCellCall(c[1], c[2])

NextLookup ==
    \/ New
    \/ Random
    \/ RandomSquare
    \/ NewFive
    \/ ToggleOnDead
    \/ CellLookup
    \/ CellNeighborsLookup
    \/ LiveNeighboursCountLookup

SpecLookup == Init /\ [][NextLookup]_vars

\* the block, advanced and looked at through cell and cell_neighbors
NextBlock == FromSeedBlock \/ NextState \/ CellLookup \/ CellNeighborsLookup

SpecBlock == Init /\ [][NextBlock]_vars

(***************************************************************************)
(* Game::run on a grid built by random: one action per loop iteration      *)
(* (advance, render, print the counter, leave or count up and sleep).      *)
(* run.screen is the last frame rendered, run.labels the counters printed. *)
(***************************************************************************)
DEAD_CELL == "dead"
LIVE_CELL == "live"

RECURSIVE RenderRow(_, _, _, _)
\* for x in 0..self.width { output.push(glyph of self.cell(x, y).unwrap()) }
RenderRow(m, x, y, w) ==
    IF x >= w THEN << >>
    ELSE << IF GridCell(m, x, y)[1].is_alive THEN LIVE_CELL ELSE DEAD_CELL >>
         \o RenderRow(m, x + 1, y, w)

RECURSIVE RenderRows(_, _, _, _)
\* for y in 0..self.height { ...; output.push('\n') }
RenderRows(m, y, w, h) ==
    IF y >= h THEN << >>
    ELSE RenderRow(m, 0, y, w) \o << "\n" >> \o RenderRows(m, y + 1, w, h)

\* Grid::render: the text printed after the screen is cleared
GridRender(m, w, h) == RenderRows(m, 0, w, h)

\* mutant: the loop is left one iteration late
LoopExitOnePast(current_generation, max_generations) ==
    current_generation = max_generations + 1

\* if current_generation == self.max_generations { break 'game_loop; }
LoopExit(current_generation, max_generations) ==
    current_generation = max_generations

\* Game::new(grid, max_generations, frame_delay) and the entry of run
GameRunCall(max_generations) ==
    /\ pc = "ready"
    /\ run.pc = "idle"
    /\ run' = [ pc |-> "loop", max_generations |-> max_generations,
                current_generation |-> 0, advances |-> 0, renders |-> 0,
                screen |-> << >>, labels |-> << >> ]
    /\ op' = Call("run", 0, 0, 0, 0, << >>)
    /\ ret' = NoReturn
    /\ UNCHANGED <<pc, width, height, cells, gen, failure>>

\* one pass through 'game_loop
GameLoopIteration(next) ==
    /\ pc = "ready"
    /\ run.pc = "loop"
    /\ cells' = next
    /\ gen' = gen + 1
    /\ run' = [ run EXCEPT
                  !.advances = @ + 1,
                  !.renders = @ + 1,
                  !.screen = GridRender(cells', width, height),
                  !.labels = Append(@, run.current_generation),
                  !.pc = IF LoopExit(run.current_generation, run.max_generations)
                         THEN "done" ELSE "loop",
                  !.current_generation =
                         IF LoopExit(run.current_generation, run.max_generations)
                         THEN @ ELSE @ + 1 ]
    /\ UNCHANGED <<pc, width, height, failure, op, ret>>

GameRun == \E n \in 0 .. MaxGenerations : GameRunCall(n)

GameLoop ==
    \E results \in { GridNextStates(cells) } :
        \E i \in DOMAIN results : \E next \in results[i] : GameLoopIteration(next)

NextGame == Random \/ GameRun \/ GameLoop

\* The loop is a sequential program on its own thread, and the sleep at the
\* end of a pass is finite: at the top of the loop it takes a pass.
SpecGame == Init /\ [][NextGame]_vars /\ WF_vars(GameLoop)

(***************************************************************************)
(* Properties                                                              *)
(***************************************************************************)
LiveCells(m) == { k \in DOMAIN m : m[k].is_alive }

GridExists == pc = "ready" \/ (pc = "panicked" /\ op.name = "toggle_cell")

\* the generation the rule table prescribes: every cell from its own state and
\* its live-neighbour count in the same, unmodified grid
SnapshotStep(m) ==
    [ k \in DOMAIN m |->
        [ x |-> m[k].x, y |-> m[k].y,
          is_alive |-> LET n == Cardinality({ j \in DOMAIN m :
                                   /\ j # k
                                   /\ j[1] - k[1] \in {-1, 0, 1}
                                   /\ j[2] - k[2] \in {-1, 0, 1}
                                   /\ m[j].is_alive })
                       IN  IF m[k].is_alive THEN n \in {2, 3} ELSE n = 3 ] ]

\* C1: whatever the order in which next_state visits the cells, the grid after
\* the call holds at every coordinate the rule-table result of that cell's
\* pre-call state and its live-neighbour count in the pre-call grid.
C1_SnapshotTransition ==
    [][ (op'.name = "next_state" /\ gen' = gen + 1) => cells' = SnapshotStep(cells) ]_vars

\* C2: the blinker seeded on the 5 x 5 grid is the column {(2,1),(2,2),(2,3)}
\* after an odd number of advances and the row {(1,2),(2,2),(3,2)} after an
\* even number, on every execution.
C2_BlinkerPeriodTwo ==
    pc = "ready" =>
        LiveCells(cells) = IF gen % 2 = 1 THEN BlinkerColumn ELSE BlinkerRow

\* C3: from from_seed(4,4,block), the live cells are exactly the four block
\* cells in every state reached by advance calls.
\* (The second conjunct is what makes this independent of the visiting order:
\* no cell's own transition in the current grid changes it, so the first cell
\* visited, and hence every later one, is rewritten with the value it had.)
C3_BlockStillLife ==
    pc = "ready" =>
        /\ LiveCells(cells) = BlockCells
        /\ \A k \in DOMAIN cells :
              CellNextState(cells[k], CellLiveNeighboursCount(cells[k], cells)) = cells[k]

C3_Witness ==
    /\ pc = "ready"
    /\ op.name = "cell"
    /\ gen = 2
    /\ ret = Some(CellNew(2, 2, TRUE))
    /\ LiveCells(cells) = BlockCells

\* C4: once a grid exists, its map has an entry at (x,y) exactly for the
\* coordinates of [0,width) x [0,height), and width and height never change.
C4_RectangleKept ==
    /\ [](GridExists => DOMAIN cells = Rect(width, height))
    /\ [][ GridExists => (width' = width /\ height' = height) ]_vars

C4_Witness ==
    /\ pc = "ready"
    /\ op.name = "toggle_cell"
    /\ gen = 2
    /\ width = 3
    /\ height = 2
    /\ DOMAIN cells = Rect(3, 2)

\* C5: for w >= 0 and h >= 0, new(w,h) and random(w,h) return a map with
\* exactly w*h entries, one for each coordinate of [0,w) x [0,h).
C5_ConstructionCardinality ==
    (op.name \in {"new", "random"} /\ op.w >= 0 /\ op.h >= 0) =>
        /\ Cardinality(DOMAIN cells) = op.w * op.h
        /\ DOMAIN cells = Rect(op.w, op.h)
        /\ width = op.w
        /\ height = op.h

C5_Witness ==
    /\ op.name = "random"
    /\ op.w = 3
    /\ op.h = 2
    /\ Cardinality(DOMAIN cells) = 6
    /\ LiveCells(cells) = { <<0, 0>>, <<2, 1>> }

\* C6: from_seed(w,h,L) with every coordinate of L in bounds returns a grid in
\* which a cell is alive if and only if its coordinate occurs in L
\* (repetitions allowed); with L empty the grid equals new(w,h).
C6_SeedAliveIffListed ==
    (op.name = "from_seed" /\ pc = "ready") =>
        /\ \A k \in DOMAIN cells :
              cells[k].is_alive <=> (\E i \in 1 .. Len(op.live_cells) : op.live_cells[i] = k)
        /\ (op.live_cells = << >> => cells = GridNew(op.w, op.h))

\* C7: Cell::next_state(n) keeps the cell's coordinates and returns alive for
\* an alive cell iff n is 2 or 3 and for a dead cell iff n is 3, for n in 0..8.
C7_RuleTable ==
    \A k \in DOMAIN cells : \A n \in 0 .. 8 :
        LET next == CellNextState(cells[k], n)
        IN  /\ next.x = cells[k].x
            /\ next.y = cells[k].y
            /\ next.is_alive = (IF cells[k].is_alive THEN n \in {2, 3} ELSE n = 3)

C7_Witness ==
    /\ pc = "ready"
    /\ op.name = "next_state"
    /\ LiveCells(cells) # {}
    /\ LiveCells(cells) # DOMAIN cells

\* C8: toggle_cell on an in-bounds (x,y) negates is_alive of that cell and
\* leaves every other cell, every cell's coordinates, width and height as
\* they were.
C8_ToggleFrame ==
    [][ (op'.name = "toggle_cell" /\ <<op'.x, op'.y>> \in Rect(width, height)) =>
            /\ pc' = "ready"
            /\ cells' = [ k \in DOMAIN cells |->
                            IF k = <<op'.x, op'.y>>
                            THEN [ x |-> cells[k].x, y |-> cells[k].y,
                                   is_alive |-> ~ cells[k].is_alive ]
                            ELSE cells[k] ]
            /\ width' = width
            /\ height' = height ]_vars

C8_Witness ==
    /\ pc = "ready"
    /\ op.name = "toggle_cell"
    /\ Cardinality(DOMAIN cells) = 6
    /\ LiveCells(cells) = { <<1, 0>>, <<2, 1>> }
    /\ <<op.x, op.y>> = <<0, 1>>

\* C9: toggle_cell on a coordinate with no entry in the grid ends in the
\* CellOutOfBounds failure and has modified no cell.
C9_ToggleOutOfBounds ==
    [][ (op'.name = "toggle_cell" /\ <<op'.x, op'.y>> \notin Rect(width, height)) =>
            /\ pc' = "panicked"
            /\ failure' = "CellOutOfBoundsError"
            /\ cells' = cells
            /\ width' = width
            /\ height' = height ]_vars

C9_Witness ==
    /\ pc = "panicked"
    /\ failure = "CellOutOfBoundsError"
    /\ op.name = "toggle_cell"
    /\ op.x = -1
    /\ LiveCells(cells) # {}

\* C10: from_seed(w,h,L) with a coordinate of L outside [0,w) x [0,h), at
\* whatever position in L, ends in a failure and returns no grid.
C10_SeedOutOfBoundsFails ==
    (op.name = "from_seed"
       /\ \E i \in 1 .. Len(op.live_cells) : op.live_cells[i] \notin Rect(op.w, op.h)) =>
        /\ pc = "panicked"
        /\ failure = "UnwrapNone"
        /\ cells = EmptyMap

C10_Witness ==
    /\ pc = "panicked"
    /\ op.name = "from_seed"
    /\ op.w = 3
    /\ op.h = 2
    /\ Len(op.live_cells) = 2
    /\ op.live_cells[1] \in Rect(op.w, op.h)
    /\ op.live_cells[2] \notin Rect(op.w, op.h)

\* the coordinates of the grid next to k: the in-bounds Moore neighbourhood
Moore(k) ==
    { j \in Rect(width, height) :
        j # k /\ j[1] - k[1] \in {-1, 0, 1} /\ j[2] - k[2] \in {-1, 0, 1} }

\* C11: cell(x,y) returns a cell iff (x,y) is in [0,width) x [0,height),
\* cell_neighbors(x,y) returns None iff cell(x,y) is absent, for every x, y
\* (negative ones included), and neither call fails.
C11_LookupsTotal ==
    /\ op.name = "cell" =>
          /\ pc = "ready"
          /\ failure = "none"
          /\ ret # None <=> <<op.x, op.y>> \in Rect(width, height)
          /\ ret # None => ret = Some(cells[<<op.x, op.y>>])
    /\ op.name = "cell_neighbors" =>
          /\ pc = "ready"
          /\ failure = "none"
          /\ ret = None <=> <<op.x, op.y>> \notin Rect(width, height)

C11_Witness ==
    /\ op.name = "cell_neighbors"
    /\ width = 3
    /\ height = 2
    /\ <<op.x, op.y>> = <<-1, 0>>
    /\ ret = None

\* C12: for an in-bounds (x,y), cell_neighbors(x,y) returns exactly the cells
\* stored at the in-bounds Moore offsets of (x,y), each once, never the cell
\* itself and none from the opposite edge; the corner (0,0) of a grid at
\* least 2 wide and 2 high gets exactly the cells (1,0), (0,1), (1,1).
C12_NeighboursAreMoore ==
    (op.name = "cell_neighbors" /\ <<op.x, op.y>> \in Rect(width, height)) =>
        LET k == <<op.x, op.y>>
            v == ret[1]
        IN  /\ Len(v) = Cardinality(Moore(k))
            /\ { v[i] : i \in 1 .. Len(v) } = { cells[j] : j \in Moore(k) }
            /\ \A i, j \in 1 .. Len(v) : v[i] = v[j] => i = j
            /\ \A i \in 1 .. Len(v) : <<v[i].x, v[i].y>> # k
            /\ (k = <<0, 0>> /\ width >= 2 /\ height >= 2) =>
                  /\ Len(v) = 3
                  /\ { <<v[i].x, v[i].y>> : i \in 1 .. Len(v) } = { <<1, 0>>, <<0, 1>>, <<1, 1>> }

C12_Witness ==
    /\ op.name = "cell_neighbors"
    /\ width = 3
    /\ height = 3
    /\ <<op.x, op.y>> = <<0, 0>>
    /\ Len(ret[1]) = 3
    /\ ret[1][3].is_alive

\* C13: live_neighbours_count is the number of alive cells among the in-bounds
\* Moore neighbours of the cell, the cell itself not counted, and lies in
\* 0..8; on the all-dead 5 x 5 grid with (1,1) toggled alive it is 1 at (0,0),
\* (2,2) and (1,0) and 0 at (1,1).
C13_LiveNeighbourCount ==
    op.name = "live_neighbours_count" =>
        LET k == <<op.x, op.y>>
        IN  /\ ret = Cardinality({ j \in Moore(k) : cells[j].is_alive })
            /\ ret \in 0 .. 8
            /\ (width = 5 /\ height = 5 /\ { j \in DOMAIN cells : cells[j].is_alive } = { <<1, 1>> }) =>
                  /\ k \in { <<0, 0>>, <<2, 2>>, <<1, 0>> } => ret = 1
                  /\ k = <<1, 1>> => ret = 0

C13_Witness ==
    /\ op.name = "live_neighbours_count"
    /\ width = 5
    /\ height = 5
    /\ { j \in DOMAIN cells : cells[j].is_alive } = { <<1, 1>> }
    /\ <<op.x, op.y>> = <<2, 2>>
    /\ ret = 1

\* C14: cell and cell_neighbors leave the grid as it was, and a call repeated
\* with the same arguments right after itself returns the same result.
C14_LookupsPure ==
    [][ op'.name \in {"cell", "cell_neighbors"} =>
            /\ cells' = cells
            /\ width' = width
            /\ height' = height
            /\ pc' = pc
            /\ (op.name = op'.name /\ op.x = op'.x /\ op.y = op'.y) => ret' = ret ]_vars

C14_Witness ==
    /\ op.name = "cell"
    /\ width = 3
    /\ height = 3
    /\ <<op.x, op.y>> = <<1, 1>>
    /\ ret = Some([ x |-> 1, y |-> 1, is_alive |-> TRUE ])

\* C15: in every state with a grid, the cell stored under key (x,y) has
\* x and y as its own coordinates.
C15_CellAtOwnKey ==
    GridExists => \A k \in DOMAIN cells : cells[k].x = k[1] /\ cells[k].y = k[2]

C15_Witness ==
    /\ pc = "ready"
    /\ op.name = "next_state"
    /\ gen = 2
    /\ width = 2
    /\ height = 3
    /\ LiveCells(cells) # {}

\* C16: the grid after next_state depends on the grid before it only, not on
\* the order in which the call visits the cells.
C16_OrderIndependent ==
    [][ (op'.name = "next_state" /\ gen' = gen + 1) =>
            \A order \in IterOrders(cells) : cells' = GridNextState(cells, order) ]_vars

Toggled(m, k) == GridToggleCell(m, k[1], k[2]).cells

\* C18: toggling an in-bounds cell twice gives back the grid, and toggles of
\* two different in-bounds cells give the same grid in either order.
C18_ToggleInvolution ==
    GridExists =>
        \A a \in Rect(width, height) :
            /\ GridToggleCell(cells, a[1], a[2]).ok
            /\ Toggled(cells, a) # cells
            /\ Toggled(Toggled(cells, a), a) = cells
            /\ \A b \in Rect(width, height) :
                  Toggled(Toggled(cells, a), b) = Toggled(Toggled(cells, b), a)

C18_Witness ==
    /\ pc = "ready"
    /\ op.name = "toggle_cell"
    /\ gen = 1
    /\ width = 3
    /\ height = 2
    /\ LiveCells(cells) = { <<0, 0>>, <<op.x, op.y>> }
    /\ <<op.x, op.y>> = <<2, 1>>

\* C17: Game::run with max_generations = n terminates after exactly n+1
\* passes, each one next_state followed by one render, so every frame shows
\* an advanced grid and the seed itself is never rendered; the counters
\* printed are 0..n, and nothing is advanced after the frame labelled n.
C17_RunTerminates ==
    /\ [](run.pc # "idle" =>
            /\ run.renders = run.advances
            /\ run.advances = gen
            /\ run.labels = [ i \in 1 .. run.advances |-> i - 1 ]
            /\ run.advances <= run.max_generations + 1
            /\ run.renders = 0 => run.screen = << >>
            /\ run.renders > 0 => run.screen = GridRender(cells, width, height)
            /\ run.pc = "done" <=> run.advances = run.max_generations + 1)
    /\ [][ run.pc = "done" => cells' = cells ]_vars
    /\ (run.pc = "loop") ~> (run.pc = "done")

C17_Witness ==
    /\ run.pc = "done"
    /\ run.max_generations = 2
    /\ run.advances = 3
    /\ run.labels = << 0, 1, 2 >>
    /\ width = 3
    /\ height = 2
    /\ run.screen = << LIVE_CELL, LIVE_CELL, DEAD_CELL, "\n", LIVE_CELL, LIVE_CELL, DEAD_CELL, "\n" >>

=============================================================================
